---- MODULE Spec2Model ----
(***************************************************************************)
(* State-machine model of nntm (src/src/nntm.c): the todo.txt line codec,  *)
(* the fixed-capacity task store with its category registry, the batch     *)
(* loader, the pipe ingester thread and the whole-store writer.            *)
(*                                                                         *)
(* C strings are modelled as sequences of one-character strings, so that   *)
(* parsing, formatting and the priority folding are computed character by  *)
(* character as the code computes them.                                    *)
(***************************************************************************)
EXTENDS Integers, Sequences, FiniteSets, TLC

(***************************************************************************)
(* Program constants                                                       *)
(***************************************************************************)
MAX_TODOS == 1000
MAX_LINE == 512
MAX_TYPE == 32
DATE_LEN == 10

(***************************************************************************)
(* Characters                                                              *)
(***************************************************************************)
NUL == "NUL"
NL == "\n"

\* The printable ASCII characters, code 32 first.
Printable ==
  << " ", "!", "\"", "#", "$", "%", "&", "'", "(", ")", "*", "+", ",", "-",
     ".", "/", "0", "1", "2", "3", "4", "5", "6", "7", "8", "9", ":", ";",
     "<", "=", ">", "?", "@", "A", "B", "C", "D", "E", "F", "G", "H", "I",
     "J", "K", "L", "M", "N", "O", "P", "Q", "R", "S", "T", "U", "V", "W",
     "X", "Y", "Z", "[", "\\", "]", "^", "_", "BACKTICK", "a", "b", "c", "d", "e",
     "f", "g", "h", "i", "j", "k", "l", "m", "n", "o", "p", "q", "r", "s",
     "t", "u", "v", "w", "x", "y", "z", "{", "|", "}", "~" >>

\* The character codes.
Code ==
  [c \in {Printable[i] : i \in 1..Len(Printable)} \cup {NUL, "\t", NL, "\r"} |->
     IF c = NUL THEN 0
     ELSE IF c = "\t" THEN 9
     ELSE IF c = NL THEN 10
     ELSE IF c = "\r" THEN 13
     ELSE 31 + (CHOOSE i \in 1..Len(Printable) : Printable[i] = c)]

Ord(c) == Code[c]

IsSpace(c) == c \in {" ", "\t", NL, "\r"}

IsAlpha(c) == Ord(c) \in 65..90 \/ Ord(c) \in 97..122

\* A toupper that leaves the letter as it is.
ToUpper_same(c) == c

ToUpper(c) == IF Ord(c) \in 97..122 THEN Printable[Ord(c) - 63] ELSE c

(***************************************************************************)
(* String helpers (libc)                                                   *)
(***************************************************************************)
Min2(a, b) == IF a < b THEN a ELSE b
Max2(a, b) == IF a > b THEN a ELSE b
MinOf(S) == CHOOSE x \in S : \A y \in S : x <= y

Take(s, n) == SubSeq(s, 1, Min2(n, Len(s)))
Drop(s, n) == SubSeq(s, n + 1, Len(s))

\* strstr: 1-based index of the first occurrence of needle, 0 when absent.
StrStr(hay, needle) ==
  LET I == {i \in 1..(Len(hay) - Len(needle) + 1) :
               SubSeq(hay, i, i + Len(needle) - 1) = needle}
  IN IF I = {} THEN 0 ELSE MinOf(I)

\* strchr: 1-based index of the first occurrence of c, 0 when absent.
StrChr(s, c) ==
  LET I == {i \in 1..Len(s) : s[i] = c}
  IN IF I = {} THEN 0 ELSE MinOf(I)

\* strncmp(a, b, n) on NUL-terminated strings: negative, zero or positive.
RECURSIVE StrNCmp(_, _, _)
StrNCmp(a, b, n) ==
  IF n = 0 THEN 0
  ELSE LET ca == IF a = <<>> THEN NUL ELSE Head(a)
           cb == IF b = <<>> THEN NUL ELSE Head(b)
       IN IF ca # cb THEN Ord(ca) - Ord(cb)
          ELSE IF ca = NUL THEN 0
          ELSE StrNCmp(Tail(a), Tail(b), n - 1)

MaxOf(S) == CHOOSE x \in S : \A y \in S : x >= y

\* F(v), with v evaluated once.
Let(v, F(_)) == CHOOSE r \in {F(x) : x \in {v}} : TRUE

\* Strip trailing whitespace (the while loop of toggle_completed).
TrimRight(s) ==
  LET K == {k \in 1..Len(s) : ~IsSpace(s[k])}
  IN IF K = {} THEN <<>> ELSE SubSeq(s, 1, MaxOf(K))

(***************************************************************************)
(* The line buffer `char line[MAX_LINE]` of load_todos.  A buffer is the   *)
(* sequence of its bytes; bytes past the end of the sequence are NUL.      *)
(* Parsing positions are 1-based indexes into the buffer.                  *)
(***************************************************************************)
At(buf, p) == IF p >= 1 /\ p <= Len(buf) THEN buf[p] ELSE NUL

\* The C string that starts at position p.
CStrAt(buf, p) ==
  LET E == {q \in p..(Len(buf) + 1) : At(buf, q) = NUL}
  IN IF p > Len(buf) THEN <<>> ELSE SubSeq(buf, p, MinOf(E) - 1)

\* while ( isspace( *p ) ) p++;
SkipSpace(buf, p) ==
  LET E == {q \in p..Max2(p, Len(buf) + 1) : ~IsSpace(At(buf, q))}
  IN MinOf(E)

\* sscanf( p, "%<w>s", dst ): skip white space, then copy at most w
\* non-space characters.  The empty result stands for "nothing converted"
\* (dst is then left as it was).
ScanToken(buf, p, w) ==
  LET q == SkipSpace(buf, p)
      E == {r \in q..Max2(q, Len(buf) + 1) : IsSpace(At(buf, r)) \/ At(buf, r) = NUL}
      e == Min2(MinOf(E), q + w)
  IN SubSeq(buf, q, e - 1)

\* fgets( line, MAX_LINE, f ) into the buffer: the chunk, its terminator,
\* and behind it whatever the buffer held before.
FGets(buf, chunk) == chunk \o <<NUL>> \o SubSeq(buf, Len(chunk) + 2, Len(buf))

\* line[ strcspn( line, "\r\n" ) ] = '\0';
ChopNewline(buf) ==
  LET s == CStrAt(buf, 1)
      I == {i \in 1..Len(s) : s[i] \in {NL, "\r"}}
  IN IF I = {} THEN buf ELSE [buf EXCEPT ![MinOf(I)] = NUL]

(***************************************************************************)
(* Task records (struct Todo)                                              *)
(***************************************************************************)
Todo(completed, completion_date, date, priority, type, text) ==
  [completed |-> completed, completion_date |-> completion_date, date |-> date,
   priority |-> priority, type |-> type, text |-> text]

ALL == <<"a", "l", "l">>
STREAM == <<"s", "t", "r", "e", "a", "m">>
DummyDate == <<"2", "0", "2", "5", "-", "0", "5", "-", "1", "2">>
PriPrefix == <<" ", "p", "r", "i", ":">>

Range(s) == {s[i] : i \in 1..Len(s)}

\* if ( todo_count >= MAX_TODOS ): the capacity check of add_new_todo,
\* load_todos and pipe_reader_thread.
\* The capacity check off by one.
StoreFull_late(n) == n > MAX_TODOS

StoreFull(n) == n >= MAX_TODOS

\* todos[ todo_count ] = t; todo_count++
\* The record goes in front of the store instead of behind it.
AppendTodo_front(store, t) == <<t>> \o store

AppendTodo(store, t) == Append(store, t)

\* add_type: append the token unless it is registered already.
add_type(reg, type) == IF type \in Range(reg) THEN reg ELSE Append(reg, type)

(***************************************************************************)
(* Decode: the body of the fgets loop of load_todos, on the buffer that    *)
(* holds the line (newline already chopped).                               *)
(***************************************************************************)
\* A priority token "(X)" at position p.
IsPri(buf, p) == At(buf, p) = "(" /\ IsAlpha(At(buf, p + 1)) /\ At(buf, p + 2) = ")"

\* 1. "x " marks a completed record; the next token is the completion date.
DecodeCompleted(buf) ==
  IF At(buf, 1) = "x" /\ At(buf, 2) = " "
  THEN Let(ScanToken(buf, 3, DATE_LEN),
           LAMBDA cd : [completed |-> TRUE, completion_date |-> cd,
                        p |-> SkipSpace(buf, 3 + Len(cd))])
  ELSE [completed |-> FALSE, completion_date |-> <<>>, p |-> 1]

\* 2. a priority before the date
DecodePriority(buf, p) ==
  IF IsPri(buf, p)
  THEN [priority |-> SubSeq(buf, p, p + 2), p |-> SkipSpace(buf, p + 4)]
  ELSE [priority |-> <<>>, p |-> p]

\* 3. the date; when sscanf converts nothing the dummy date stays, and p
\*    still moves by its length.
DecodeDate(buf, p) ==
  Let(ScanToken(buf, p, DATE_LEN),
      LAMBDA tok : Let(IF tok = <<>> THEN DummyDate ELSE tok,
                       LAMBDA date : [date |-> date, p |-> SkipSpace(buf, p + Len(date))]))

\* 4. a priority after the date, when none was found before it
\* The decode without its step 4.
DecodePriorityAgain_never(buf, priority, p) == [priority |-> priority, p |-> p]

DecodePriorityAgain(buf, priority, p) ==
  IF priority = <<>> /\ IsPri(buf, p)
  THEN [priority |-> SubSeq(buf, p, p + 2), p |-> SkipSpace(buf, p + 4)]
  ELSE [priority |-> priority, p |-> p]

\* 5. "@type"; when sscanf converts nothing the type stays "stream".
DecodeType(buf, p) ==
  IF At(buf, p) = "@"
  THEN Let(ScanToken(buf, p + 1, MAX_TYPE - 1),
           LAMBDA tok : Let(IF tok = <<>> THEN STREAM ELSE tok,
                            LAMBDA type : [type |-> type,
                                           p |-> SkipSpace(buf, p + 1 + Len(type))]))
  ELSE [type |-> ALL, p |-> p]

\* 6. the rest is the text
DecodeLine(buf) ==
  Let(DecodeCompleted(buf), LAMBDA s1 :
  Let(DecodePriority(buf, s1.p), LAMBDA s2 :
  Let(DecodeDate(buf, s2.p), LAMBDA s3 :
  Let(DecodePriorityAgain(buf, s2.priority, s3.p), LAMBDA s4 :
  Let(DecodeType(buf, s4.p), LAMBDA s5 :
    Todo(s1.completed, s1.completion_date, s3.date, s4.priority, s5.type,
         Take(CStrAt(buf, s5.p), MAX_LINE - 1)))))))

(***************************************************************************)
(* Encode: the line save_todos_to_file prints for one record (without the  *)
(* newline), and the line archive_completed_todos prints.                  *)
(***************************************************************************)
Encode(t) ==
  IF t.completed
  THEN <<"x", " ">> \o t.completion_date \o <<" ">> \o t.date \o <<" ", "@">>
         \o t.type \o <<" ">> \o t.text
  ELSE IF t.priority # <<>>
  THEN t.priority \o <<" ">> \o t.date \o <<" ", "@">> \o t.type \o <<" ">> \o t.text
  ELSE t.date \o <<" ", "@">> \o t.type \o <<" ">> \o t.text

\* The archive line without the completion date.
ArchiveLine_nodate(t) ==
  <<"x", " ">> \o t.date \o <<" ", "@">> \o t.type \o <<" ">> \o t.text

ArchiveLine(t) ==
  <<"x", " ">> \o t.completion_date \o <<" ">> \o t.date \o <<" ", "@">>
    \o t.type \o <<" ">> \o t.text

(***************************************************************************)
(* toggle_completed on the addressed record, with the priority folding.    *)
(***************************************************************************)
\* Completing a record without clearing its priority field.
ToggleRec_keep(t, today) ==
  IF ~t.completed
  THEN [t EXCEPT !.completed = TRUE, !.completion_date = today]
  ELSE [t EXCEPT !.completed = FALSE, !.completion_date = <<>>]

\* A toggle that stamps the record's date as well.
ToggleRec_stamp(t, today) ==
  [t EXCEPT !.completed = ~t.completed,
            !.completion_date = IF t.completed THEN <<>> ELSE today,
            !.date = today]

ToggleRec(t, today) ==
  IF ~t.completed
  THEN LET has == Len(t.priority) >= 3 /\ t.priority[1] = "(" /\ t.priority[3] = ")"
           pri_tag == Append(PriPrefix, t.priority[2])
           fits == StrStr(t.text, pri_tag) = 0 /\ Len(t.text) + Len(pri_tag) < MAX_LINE
       IN [t EXCEPT !.completed = TRUE,
                    !.completion_date = today,
                    !.text = IF has /\ fits THEN t.text \o pri_tag ELSE t.text,
                    !.priority = IF has THEN <<>> ELSE t.priority]
  ELSE LET pri == StrStr(t.text, PriPrefix)
           found == pri > 0 /\ Len(t.text) - pri + 1 = 6 /\ IsAlpha(t.text[pri + 5])
       IN [t EXCEPT !.completed = FALSE,
                    !.completion_date = <<>>,
                    !.priority = IF found THEN <<"(", t.text[pri + 5], ")">> ELSE t.priority,
                    !.text = IF found THEN TrimRight(SubSeq(t.text, 1, pri - 1)) ELSE t.text]

(***************************************************************************)
(* The pipe-specific decode of pipe_reader_thread (line already chopped).  *)
(***************************************************************************)
PipeDecode(line, today) ==
  LET at == StrChr(line, "@")
      E == {e \in (at + 1)..(Len(line) + 1) : e = Len(line) + 1 \/ IsSpace(line[e])}
      end == MinOf(E)
      len == end - (at + 1)
      type == IF at > 0 /\ len > 0 /\ len < MAX_TYPE THEN SubSeq(line, at + 1, end - 1) ELSE ALL
      rest == IF at > 0 THEN SubSeq(line, 1, at - 1) \o SubSeq(line, end, Len(line)) ELSE line
  IN Todo(FALSE, <<>>, today, <<>>, type, Take(rest, MAX_LINE - 1))

\* add_type is called only for a token taken from the line.
PipeRegisters(line) ==
  LET at == StrChr(line, "@")
      E == {e \in (at + 1)..(Len(line) + 1) : e = Len(line) + 1 \/ IsSpace(line[e])}
      len == MinOf(E) - (at + 1)
  IN at > 0 /\ len > 0 /\ len < MAX_TYPE

(***************************************************************************)
(* Bounds of the model and the inputs drawn from the environment           *)
(***************************************************************************)
MaxKeys == 2         \* keys the user presses in batch mode
MaxEvents == 3       \* keys pressed plus lines written to the pipe, in streaming mode
MaxStore == 5        \* add is tried only on stores below this size
MaxPipe == 3         \* lines the FIFO buffers before a write blocks
MaxIOFail == 1       \* fopen-for-writing failures
MaxIndexKeys == 4    \* keys the user presses in SpecIndex

D1 == <<"2", "0", "2", "5", "-", "0", "1", "-", "0", "1">>
D2 == <<"2", "0", "2", "5", "-", "0", "2", "-", "0", "2">>
Today == <<"2", "0", "2", "5", "-", "0", "6", "-", "0", "3">>

W == <<"w">>
V == <<"v">>

\* What the user types at the "New todo:" prompt.
TextInputs == { <<"a">>, <<" ", "b">>, <<>> }
\* Keys pressed at the priority prompt.
KeyInputs == { "a", "B", " ", "1" }
\* What the user types at the "Change type to @" / "Jump to context @" prompts.
TypeInputs == { W, V, <<>> }
\* Lines external writers send through the pipe.
PipeInputs == { <<"a", " ", "@", "w">>, <<"b">> }

Sp(a, b) == a \o <<" ">> \o b
AtW == <<"@", "w">>
AtV == <<"@", "v">>

\* Backing files the program may be started on.
FileA ==
  << Sp(Sp(Sp(<<"(", "B", ")">>, D2), AtW), <<"a">>),
     Sp(Sp(D1, AtV), <<"b">>),
     Sp(Sp(Sp(Sp(<<"x">>, D2), D1), AtW), <<"c", " ", "p", "r", "i", ":", "A">>),
     Sp(Sp(Sp(D1, <<"(", "A", ")">>), AtW), <<"d">>),
     Sp(Sp(Sp(Sp(<<"x">>, D2), D2), AtW), <<"e">>) >>
FileB ==
  << Sp(Sp(Sp(<<"(", "B", ")">>, D1), AtW), <<"a", " ", "p", "r", "i", ":", "A", " ", "z">>),
     Sp(D1, <<"n", "o", "c", "a", "t">>),
     Sp(Sp(Sp(<<"(", "A", ")">>, D1), AtV), <<"t", " ">>) >>
FileC ==
  << Sp(Sp(Sp(Sp(<<"x">>, D2), <<"(", "A", ")">>), D1), Sp(AtW, <<"t">>)),
     <<>>,
     Sp(<<"x">>, <<>>) >>
FileEmpty == << >>
InitFiles == { FileA, FileB, FileC, FileEmpty }

\* Contents the uninitialised line buffer of load_todos may have.
StackGarbage == { <<>>, <<"?", "?", "?", "?", "?", "?", "?", "?", "?", "?", " ", "@", "g", " ", "j">> }

\* Contents a types[] slot at or past type_count may have (never set, or
\* freed by load_todos).
DanglingTypes == { W, <<"?">> }

(***************************************************************************)
(* State                                                                   *)
(***************************************************************************)
VARIABLES
  todos,                \* todos[0 .. todo_count-1]
  types,                \* types[0 .. type_count-1]
  selected_type,        \* 0-based index into types
  selected_index,       \* 0-based visible index
  auto_scroll_enabled,
  streaming_mode,
  file,                 \* lines of the backing file (batch mode)
  archive,              \* lines of todo.archive.txt
  todo_mutex,           \* "free", "fg" or "bg"
  fpc,                  \* foreground: "idle", "save_lock", "save_write",
                        \*   "load_open", "load_loop"; in SpecRace also
                        \*   "reinsert", "jump_add"; in SpecLive "save_line"
  lbuf,                 \* char line[] of load_todos while it reads the FIFO
  loc,                  \* the locals of the key handler the foreground is in,
                        \*   where SpecRace takes the handler in several steps
  rpc,                  \* pipe_reader_thread: "off", "open", "fgets", "lock",
                        \*   "locked", "unlock", "unlock_full", "scroll"
  rline,                \* the line the reader thread holds
  pipe,                 \* lines in the FIFO, not yet read
  writer,               \* an external writer has the FIFO open
  op,                   \* the operation of the last step (history)
  touched,              \* storage position of the record the last step wrote,
                        \*   0 when it wrote none (history)
  written,              \* lines external writers have written so far (history)
  fg_mutated,           \* the foreground has changed the store or started a
                        \*   whole-store write while streaming (history)
  pend,                 \* record and position before the last completing toggle (history)
  rt,                   \* a complete/un-complete round trip just finished (history)
  nops,                 \* keys handled so far, counts against MaxKeys / MaxEvents
  nfail                 \* counts against MaxIOFail

vars == << todos, types, selected_type, selected_index, auto_scroll_enabled,
           streaming_mode, file, archive, todo_mutex, fpc, lbuf, loc, rpc, rline, pipe,
           writer, op, touched, written, fg_mutated, pend, rt, nops, nfail >>

todo_count == Len(todos)
type_count == Len(types)

None == [none |-> TRUE]

(***************************************************************************)
(* load_todos                                                              *)
(***************************************************************************)
\* One iteration of the fgets loop on one chunk of at most MAX_LINE-1 bytes.
LoadChunk(st0, chunk) ==
  Let(st0, LAMBDA st :
    IF StoreFull(Len(st.todos)) THEN st
    ELSE Let(ChopNewline(FGets(st.buf, chunk)), LAMBDA b :
         Let(DecodeLine(b), LAMBDA t :
           [buf |-> b, todos |-> AppendTodo(st.todos, t), types |-> add_type(st.types, t.type)])))

\* The chunks fgets cuts one file line (with its newline) into.
RECURSIVE LoadLine(_, _)
LoadLine(st, bytes) ==
  IF Len(bytes) <= MAX_LINE - 1 THEN LoadChunk(st, bytes)
  ELSE Let(LoadChunk(st, Take(bytes, MAX_LINE - 1)),
           LAMBDA st1 : LoadLine(st1, Drop(bytes, MAX_LINE - 1)))

\* The lines lo..hi of the file, in file order.
RECURSIVE LoadRange(_, _, _, _)
LoadRange(st, lines, lo, hi) ==
  IF lo > hi THEN st
  ELSE IF lo = hi THEN Let(Append(lines[lo], NL), LAMBDA bytes : LoadLine(st, bytes))
  ELSE Let(LoadRange(st, lines, lo, (lo + hi) \div 2), LAMBDA st1 :
         IF StoreFull(Len(st1.todos)) THEN st1
         ELSE LoadRange(st1, lines, (lo + hi) \div 2 + 1, hi))

\* load_todos: todo_count = 0, the registry reset to "all", then the loop.
\* A load that keeps reading where the first line ends.
load_todos_skip(lines, garbage) ==
  LoadRange([buf |-> garbage, todos |-> <<>>, types |-> <<ALL>>], lines, 2, Len(lines))

load_todos(lines, garbage) ==
  LoadRange([buf |-> garbage, todos |-> <<>>, types |-> <<ALL>>], lines, 1, Len(lines))

\* save_todos_to_file: what fopen( "w" ) .. fclose leaves in the file.
\* A save that leaves out the completed records.
SaveLines_open(store) ==
  LET open == SelectSeq(store, LAMBDA t : ~t.completed)
  IN [i \in 1..Len(open) |-> Encode(open[i])]

SaveLines(store) == [i \in 1..Len(store) |-> Encode(store[i])]

(***************************************************************************)
(* Filters                                                                 *)
(***************************************************************************)
\* The category the foreground reads through types[ selected_type ].
CurTypes == IF selected_type < type_count THEN {types[selected_type + 1]} ELSE DanglingTypes

\* strcmp( cat, "all" ) == 0 || strcmp( t->type, cat ) == 0
Matches(t, cat) == cat = ALL \/ t.type = cat

Indices(store) == [i \in 1..Len(store) |-> i]

\* Storage positions of the records the filter shows, in storage order.
VisiblePos(store, cat) == SelectSeq(Indices(store), LAMBDA i : Matches(store[i], cat))

\* Storage positions add_new_todo counts: it compares the type only.
ExactPos(store, cat) == SelectSeq(Indices(store), LAMBDA i : store[i].type = cat)

count_visible_items_for_type(store, type) ==
  IF type = ALL THEN Len(store) ELSE Len(ExactPos(store, type))

\* The filtered records, in storage order.
Visible(store, cat) == SelectSeq(store, LAMBDA t : Matches(t, cat))

\* The reordered records written to the front of the store, whatever the
\* filter.
Reinsert_front(store, cat, sub) ==
  [i \in 1..Len(store) |-> IF i <= Len(sub) THEN sub[i] ELSE store[i]]

\* The "reinsert" loop of the sort and group functions.
Reinsert(store, cat, sub) ==
  [i \in 1..Len(store) |->
     IF Matches(store[i], cat)
     THEN sub[Cardinality({j \in 1..i : Matches(store[j], cat)})]
     ELSE store[i]]

(***************************************************************************)
(* Sorting and grouping                                                    *)
(***************************************************************************)
compare_date(ta, tb, descending) ==
  LET cmp == StrNCmp(ta.date, tb.date, DATE_LEN)
  IN IF descending THEN 0 - cmp ELSE cmp

PriKey(t) == IF Len(t.priority) >= 1 /\ t.priority[1] = "(" THEN Ord(t.priority[2]) ELSE 127

compare_priority(ta, tb, descending) ==
  IF descending THEN PriKey(tb) - PriKey(ta) ELSE PriKey(ta) - PriKey(tb)

\* The orders qsort may leave the array in: every arrangement in which no
\* element compares greater than a later one (qsort is not stable, so
\* elements that compare equal may come out in any order).  Built front to
\* back from the indexes of sub: the next element is any remaining one
\* that compares less than or equal to all the others.
\* The comparison function handed to qsort.
Compare(ta, tb, by_date, descending) ==
  IF by_date THEN compare_date(ta, tb, descending) ELSE compare_priority(ta, tb, descending)

RECURSIVE SortedOrders(_, _, _, _)
SortedOrders(sub, by_date, descending, rest) ==
  IF rest = {} THEN { <<>> }
  ELSE UNION { { <<i>> \o o : o \in SortedOrders(sub, by_date, descending, rest \ {i}) } :
               i \in {k \in rest :
                        \A j \in rest : Compare(sub[k], sub[j], by_date, descending) <= 0} }

QSortResults(sub, by_date, descending) ==
  { [i \in 1..Len(sub) |-> sub[o[i]]] :
      o \in SortedOrders(sub, by_date, descending, 1..Len(sub)) }

\* The completed records put first.
group_todos_by_completed_first(store, cat) ==
  LET grouped == SelectSeq(store, LAMBDA t : Matches(t, cat) /\ t.completed)
                   \o SelectSeq(store, LAMBDA t : Matches(t, cat) /\ ~t.completed)
  IN Reinsert(store, cat, grouped)

group_todos_by_completed(store, cat) ==
  LET grouped == SelectSeq(store, LAMBDA t : Matches(t, cat) /\ ~t.completed)
                   \o SelectSeq(store, LAMBDA t : Matches(t, cat) /\ t.completed)
  IN Reinsert(store, cat, grouped)

(***************************************************************************)
(* Initial states: main() after load_todos (batch mode) or after the       *)
(* reader thread was created (streaming mode).                             *)
(***************************************************************************)
InitCommon ==
  /\ selected_type = 0
  /\ selected_index = 0
  /\ auto_scroll_enabled = TRUE
  /\ archive = <<>>
  /\ todo_mutex = "free"
  /\ fpc = "idle"
  /\ lbuf = <<>>
  /\ loc = None
  /\ rline = <<>>
  /\ pipe = <<>>
  /\ writer = FALSE
  /\ op = "start"
  /\ touched = 0
  /\ written = <<>>
  /\ fg_mutated = FALSE
  /\ pend = None
  /\ rt = None
  /\ nops = 0
  /\ nfail = 0

InitBatch ==
  \E f \in InitFiles, g \in StackGarbage :
    \E st \in {load_todos(f, g)} :
       /\ todos = st.todos
       /\ types = st.types
       /\ file = f
       /\ streaming_mode = FALSE
       /\ rpc = "off"
       /\ InitCommon

InitStream ==
  /\ todos = <<>>
  /\ types = <<ALL>>
  /\ file = <<>>
  /\ streaming_mode = TRUE
  /\ rpc = "open"
  /\ InitCommon

(***************************************************************************)
(* Foreground: the key handlers of ui_loop                                 *)
(***************************************************************************)
bgvars == << rpc, rline, pipe, writer, written, lbuf, loc >>
selvars == << selected_type, selected_index, auto_scroll_enabled >>

\* A handler runs when the foreground is not inside save_todos_to_file.
FgReady ==
  /\ fpc = "idle"
  /\ IF streaming_mode THEN nops + Len(written) < MaxEvents ELSE nops < MaxKeys

\* save_todos_to_file in batch mode (no other thread exists: the lock is
\* taken and released within the call).  wok: fopen( "w" ) succeeded.
\* A failed fopen( "w" ) that leaves the file empty.
BatchSave_truncate(store, wok) ==
  /\ wok \/ nfail < MaxIOFail
  /\ file' = IF wok THEN SaveLines(store) ELSE <<>>
  /\ nfail' = IF wok THEN nfail ELSE nfail + 1

BatchSave(store, wok) ==
  /\ wok \/ nfail < MaxIOFail
  /\ file' = IF wok THEN SaveLines(store) ELSE file
  /\ nfail' = IF wok THEN nfail ELSE nfail + 1

NoSave == UNCHANGED << file, nfail >>

Mutated == fg_mutated' = (fg_mutated \/ (streaming_mode /\ todos' # todos))

\* case ' ': toggle_completed( selected_index )
ToggleCompleted ==
  /\ FgReady
  /\ nops' = nops + 1
  /\ \E cat \in CurTypes :
       LET vis == VisiblePos(todos, cat)
       IN IF selected_index >= 0 /\ selected_index < Len(vis)
          THEN LET pos == vis[selected_index + 1]
                   t == todos[pos]
                   nt == ToggleRec(t, Today)
               IN /\ todos' = [todos EXCEPT ![pos] = nt]
                  /\ IF streaming_mode THEN NoSave
                     ELSE \E wok \in BOOLEAN : BatchSave(todos', wok)
                  /\ touched' = pos
                  /\ op' = "toggle"
                  /\ pend' = IF ~t.completed /\ t.priority # <<>>
                             THEN [pos |-> pos, before |-> t] ELSE None
                  /\ rt' = IF t.completed /\ pend # None /\ pend.pos = pos
                           THEN [before |-> pend.before, after |-> nt] ELSE None
          ELSE /\ touched' = 0
               /\ op' = "toggle_noop"
               /\ pend' = None
               /\ rt' = None
               /\ UNCHANGED << todos, file, nfail >>
  /\ Mutated
  /\ UNCHANGED << types, selvars, streaming_mode, archive, todo_mutex, fpc, bgvars >>

\* case 's': prompt_priority()
SetPriority ==
  /\ FgReady
  /\ nops' = nops + 1
  /\ \E cat \in CurTypes, ch \in KeyInputs :
       LET vis == VisiblePos(todos, cat)
       IN IF selected_index >= 0 /\ selected_index < Len(vis)
          THEN LET pos == vis[selected_index + 1]
                   t == todos[pos]
                   pri == IF ch = " " THEN <<>>
                          ELSE IF IsAlpha(ch) THEN <<"(", ToUpper(ch), ")">>
                          ELSE t.priority
               IN IF t.completed
                  THEN /\ touched' = 0
                       /\ op' = "priority_refused"
                       /\ UNCHANGED << todos, file, nfail >>
                  ELSE /\ todos' = [todos EXCEPT ![pos].priority = pri]
                       /\ IF streaming_mode THEN NoSave
                          ELSE \E wok \in BOOLEAN : BatchSave(todos', wok)
                       /\ touched' = pos
                       /\ op' = "priority"
          ELSE /\ touched' = 0
               /\ op' = "priority_noop"
               /\ UNCHANGED << todos, file, nfail >>
  /\ Mutated
  /\ pend' = None
  /\ rt' = None
  /\ UNCHANGED << types, selvars, streaming_mode, archive, todo_mutex, fpc, bgvars >>

\* case 't': prompt_type().  In streaming mode the call of
\* save_todos_to_file continues in FgSaveLock, FgSaveWrite.
ChangeCategory ==
  /\ FgReady
  /\ nops' = nops + 1
  /\ \E cat \in CurTypes, input \in TypeInputs :
       LET vis == VisiblePos(todos, cat)
       IN IF selected_index >= 0 /\ selected_index < Len(vis) /\ input # <<>>
          THEN LET pos == vis[selected_index + 1]
               IN /\ todos' = [todos EXCEPT ![pos].type = Take(input, MAX_TYPE - 1)]
                  /\ types' = add_type(types, input)
                  /\ touched' = pos
                  /\ op' = "type"
                  /\ IF streaming_mode
                     THEN fpc' = "save_lock" /\ NoSave
                     ELSE /\ fpc' = fpc
                          /\ \E wok \in BOOLEAN : BatchSave(todos', wok)
          ELSE /\ touched' = 0
               /\ op' = "type_noop"
               /\ UNCHANGED << todos, types, file, nfail, fpc >>
  /\ fg_mutated' = (fg_mutated \/ (streaming_mode /\ (todos' # todos \/ fpc' # fpc)))
  /\ pend' = None
  /\ rt' = None
  /\ UNCHANGED << selvars, streaming_mode, archive, todo_mutex, bgvars >>

\* case 'n': add_new_todo()
AddNewTodo ==
  /\ FgReady
  /\ nops' = nops + 1
  /\ todo_count < MaxStore \/ todo_count >= MAX_TODOS - 2
  /\ \E cat \in CurTypes, text \in TextInputs :
       LET new_todo == Todo(FALSE, <<>>, Today, <<>>, Take(cat, MAX_TYPE - 1), text)
           shown == ExactPos(todos, cat)
       IN IF streaming_mode \/ StoreFull(todo_count) \/ text = <<>>
          THEN /\ touched' = 0
               /\ op' = IF streaming_mode THEN "add_suppressed"
                        ELSE IF StoreFull(todo_count) THEN "add_refused"
                        ELSE "add_empty"
               /\ UNCHANGED << todos, file, nfail, selected_index >>
          ELSE IF selected_index >= 0 /\ selected_index < Len(shown)
          THEN LET i == shown[selected_index + 1]
               IN /\ todos' = SubSeq(todos, 1, i) \o <<new_todo>> \o SubSeq(todos, i + 1, Len(todos))
                  /\ \E wok \in BOOLEAN : BatchSave(todos', wok)
                  /\ selected_index' = selected_index + 1
                  /\ touched' = i + 1
                  /\ op' = "add"
          ELSE /\ todos' = AppendTodo(todos, new_todo)
               /\ \E wok \in BOOLEAN : BatchSave(todos', wok)
               /\ selected_index' = selected_index
               /\ touched' = Len(todos')
               /\ op' = "add_append"
  /\ Mutated
  /\ pend' = None
  /\ rt' = None
  /\ UNCHANGED << types, selected_type, auto_scroll_enabled, streaming_mode, archive,
                  todo_mutex, fpc, bgvars >>

\* case 'd' / 'D': sort_todos_by_date( descending ); selected_index = 0
SortByDate ==
  /\ FgReady
  /\ nops' = nops + 1
  /\ \E cat \in CurTypes, descending \in BOOLEAN :
       \E sub \in {Visible(todos, cat)} :
       \E sorted \in QSortResults(sub, TRUE, descending) :
          /\ todos' = Reinsert(todos, cat, sorted)
          /\ touched' = 0
          /\ op' = IF descending THEN "sort_date_desc" ELSE "sort_date_asc"
  /\ selected_index' = 0
  /\ Mutated
  /\ pend' = None
  /\ rt' = None
  /\ UNCHANGED << types, selected_type, auto_scroll_enabled, streaming_mode, file, archive,
                  todo_mutex, fpc, bgvars, nfail >>

\* case 'p' / 'P': sort_todos_by_priority( descending ); selected_index = 0
SortByPriority ==
  /\ FgReady
  /\ nops' = nops + 1
  /\ \E cat \in CurTypes, descending \in BOOLEAN :
       \E sub \in {Visible(todos, cat)} :
       \E sorted \in QSortResults(sub, FALSE, descending) :
          /\ todos' = Reinsert(todos, cat, sorted)
          /\ touched' = 0
          /\ op' = IF descending THEN "sort_pri_desc" ELSE "sort_pri_asc"
  /\ selected_index' = 0
  /\ Mutated
  /\ pend' = None
  /\ rt' = None
  /\ UNCHANGED << types, selected_type, auto_scroll_enabled, streaming_mode, file, archive,
                  todo_mutex, fpc, bgvars, nfail >>

\* case 'g': group_todos_by_completed(); selected_index = 0
GroupByCompletion ==
  /\ FgReady
  /\ nops' = nops + 1
  /\ \E cat \in CurTypes : todos' = group_todos_by_completed(todos, cat)
  /\ touched' = 0
  /\ op' = "group"
  /\ selected_index' = 0
  /\ Mutated
  /\ pend' = None
  /\ rt' = None
  /\ UNCHANGED << types, selected_type, auto_scroll_enabled, streaming_mode, file, archive,
                  todo_mutex, fpc, bgvars, nfail >>

\* case 'A': archive_completed_todos(); selected_index = 0
\* aok: fopen( archive_path, "a" ) succeeded.
Archive ==
  /\ FgReady
  /\ nops' = nops + 1
  /\ \E aok \in BOOLEAN :
       IF aok
       THEN LET done == SelectSeq(todos, LAMBDA t : t.completed)
            IN /\ archive' = archive \o [i \in 1..Len(done) |-> ArchiveLine(done[i])]
               /\ todos' = SelectSeq(todos, LAMBDA t : ~t.completed)
               /\ touched' = 0
               /\ op' = "archive"
               /\ IF ~streaming_mode /\ Len(done) > 0
                  THEN \E wok \in BOOLEAN : BatchSave(todos', wok)
                  ELSE NoSave
       ELSE /\ nfail < MaxIOFail
            /\ nfail' = nfail + 1
            /\ touched' = 0
            /\ op' = "archive_failed"
            /\ UNCHANGED << todos, archive, file >>
  /\ selected_index' = 0
  /\ Mutated
  /\ pend' = None
  /\ rt' = None
  /\ UNCHANGED << types, selected_type, auto_scroll_enabled, streaming_mode,
                  todo_mutex, fpc, bgvars >>

\* case 'G': load_todos( todo_filename ); selected_index = 0.  In streaming
\* mode todo_filename is the FIFO: the call continues in FgLoadOpen,
\* FgLoadLine, FgLoadEOF.
Reload ==
  /\ FgReady
  /\ nops' = nops + 1
  /\ IF streaming_mode
     THEN /\ fpc' = "load_open"
          /\ touched' = 0
          /\ op' = "reload_open"
          /\ fg_mutated' = TRUE
          /\ UNCHANGED << todos, types, selected_index >>
     ELSE /\ \E g \in StackGarbage :
               \E st \in {load_todos(file, g)} :
                  /\ todos' = st.todos
                  /\ types' = st.types
          /\ touched' = 0
          /\ op' = "reload"
          /\ selected_index' = 0
          /\ UNCHANGED << fpc, fg_mutated >>
  /\ pend' = None
  /\ rt' = None
  /\ UNCHANGED << selected_type, auto_scroll_enabled, streaming_mode, file, archive,
                  todo_mutex, bgvars, nfail >>

\* Keys that move the selection or the filter.
navvars == << todos, file, archive, streaming_mode, todo_mutex, fpc, bgvars,
              fg_mutated, nfail >>

\* case 'j'
KeyDown ==
  /\ FgReady
  /\ nops' = nops + 1
  /\ \E cat \in CurTypes :
       LET n == count_visible_items_for_type(todos, cat)
           idx == IF selected_index + 1 < n THEN selected_index + 1 ELSE selected_index
       IN /\ selected_index' = idx
          /\ auto_scroll_enabled' =
               (auto_scroll_enabled \/ (idx + 1 >= n /\ streaming_mode))
  /\ touched' = 0
  /\ op' = "nav"
  /\ pend' = None
  /\ rt' = None
  /\ UNCHANGED << types, selected_type, navvars >>

\* case 'k'
KeyUp ==
  /\ FgReady
  /\ nops' = nops + 1
  /\ auto_scroll_enabled' = FALSE
  /\ selected_index' = IF selected_index > 0 THEN selected_index - 1 ELSE selected_index
  /\ touched' = 0
  /\ op' = "nav"
  /\ pend' = None
  /\ rt' = None
  /\ UNCHANGED << types, selected_type, navvars >>

\* case 'h' / 'l'
SwitchType ==
  /\ FgReady
  /\ nops' = nops + 1
  /\ \E left \in BOOLEAN :
       selected_type' = IF left THEN (selected_type - 1 + type_count) % type_count
                        ELSE (selected_type + 1) % type_count
  /\ selected_index' = 0
  /\ touched' = 0
  /\ op' = "nav"
  /\ pend' = None
  /\ rt' = None
  /\ UNCHANGED << types, auto_scroll_enabled, navvars >>

\* case '@': jump to a category, creating it when it is not registered
JumpToType ==
  /\ FgReady
  /\ nops' = nops + 1
  /\ \E input \in TypeInputs :
       LET I == {i \in 1..type_count : types[i] = input}
       IN IF input = <<>>
          THEN UNCHANGED << types, selected_type, selected_index >>
          ELSE /\ selected_index' = 0
               /\ IF I # {}
                  THEN selected_type' = MinOf(I) - 1 /\ types' = types
                  ELSE IF type_count < MAX_TODOS
                  THEN selected_type' = type_count /\ types' = Append(types, input)
                  ELSE UNCHANGED << types, selected_type >>
  /\ touched' = 0
  /\ op' = "nav"
  /\ pend' = None
  /\ rt' = None
  /\ UNCHANGED << auto_scroll_enabled, navvars >>

\* case 'f'
ToggleAutoScroll ==
  /\ FgReady
  /\ nops' = nops + 1
  /\ auto_scroll_enabled' = ~auto_scroll_enabled
  /\ touched' = 0
  /\ op' = "nav"
  /\ pend' = None
  /\ rt' = None
  /\ UNCHANGED << types, selected_type, selected_index, navvars >>

(***************************************************************************)
(* save_todos_to_file called by prompt_type in streaming mode, where the   *)
(* reader thread competes for todo_mutex and todo_filename is the FIFO.    *)
(***************************************************************************)
\* pthread_mutex_lock returns when no thread holds the mutex.
\* A lock the caller gets whoever holds it.
CanLock_always(m) == TRUE

CanLock(m) == m = "free"

\* pthread_mutex_lock( &todo_mutex )
FgSaveLock ==
  /\ fpc = "save_lock"
  /\ CanLock(todo_mutex)
  /\ todo_mutex' = "fg"
  /\ fpc' = "save_write"
  /\ touched' = 0
  /\ op' = "save_lock"
  /\ UNCHANGED << todos, types, selvars, streaming_mode, file, archive, bgvars,
                  fg_mutated, pend, rt, nops, nfail >>

\* fopen( todo_filename, "w" ) .. fclose( f ); pthread_mutex_unlock.
\* Opening the FIFO for writing returns once the reader has it open, and
\* writing into it returns once the FIFO has room for the lines.
FgSaveWrite ==
  /\ fpc = "save_write"
  /\ \E wok \in BOOLEAN :
       IF wok
       THEN /\ rpc # "open"
            /\ Len(pipe) + todo_count <= MaxPipe
            /\ pipe' = pipe \o SaveLines(todos)
            /\ nfail' = nfail
       ELSE /\ nfail < MaxIOFail
            /\ nfail' = nfail + 1
            /\ pipe' = pipe
  /\ todo_mutex' = "free"
  /\ fpc' = "idle"
  /\ touched' = 0
  /\ op' = "save_write"
  /\ UNCHANGED << todos, types, selvars, streaming_mode, file, archive, rpc, rline,
                  writer, written, lbuf, loc, fg_mutated, pend, rt, nops >>

(***************************************************************************)
(* load_todos called by case 'G' in streaming mode: the foreground reads   *)
(* the FIFO itself, next to the reader thread, and takes no lock.          *)
(***************************************************************************)
loadfix == << selected_type, auto_scroll_enabled, streaming_mode, file, archive,
              todo_mutex, rpc, rline, writer, written, fg_mutated, pend, rt, nops,
              nfail, loc >>

\* fopen( filename, "r" ) returns once a writer has the FIFO open; then
\* todo_count = 0 and the registry is reset to "all".
FgLoadOpen ==
  /\ fpc = "load_open"
  /\ writer
  /\ todos' = <<>>
  /\ types' = <<ALL>>
  /\ \E g \in StackGarbage : lbuf' = g
  /\ fpc' = "load_loop"
  /\ touched' = 0
  /\ op' = "load_open"
  /\ UNCHANGED << selected_index, pipe, loadfix >>

\* One iteration of the fgets loop on a line of the FIFO.
FgLoadLine ==
  /\ fpc = "load_loop"
  /\ pipe # <<>>
  /\ pipe' = Tail(pipe)
  /\ IF StoreFull(todo_count)
     THEN /\ fpc' = "idle"
          /\ lbuf' = <<>>
          /\ selected_index' = 0
          /\ touched' = 0
          /\ op' = "reload"
          /\ UNCHANGED << todos, types >>
     ELSE \E st \in {LoadLine([buf |-> lbuf, todos |-> todos, types |-> types],
                              Append(Head(pipe), NL))} :
            /\ todos' = st.todos
            /\ types' = st.types
            /\ lbuf' = st.buf
            /\ fpc' = fpc
            /\ selected_index' = selected_index
            /\ touched' = Len(todos')
            /\ op' = "load_line"
  /\ UNCHANGED loadfix

\* fgets returned NULL: every writer has closed; fclose, selected_index = 0
FgLoadEOF ==
  /\ fpc = "load_loop"
  /\ pipe = <<>>
  /\ ~writer
  /\ fpc' = "idle"
  /\ lbuf' = <<>>
  /\ selected_index' = 0
  /\ touched' = 0
  /\ op' = "reload"
  /\ UNCHANGED << todos, types, pipe, loadfix >>

(***************************************************************************)
(* pipe_reader_thread                                                      *)
(***************************************************************************)
fgvars == << file, archive, fpc, lbuf, loc, fg_mutated, pend, rt, nops, nfail, streaming_mode >>

\* fopen( filename, "r" ) returns once some writer has the FIFO open (an
\* external one, or the foreground inside save_todos_to_file).
ReaderOpen ==
  /\ rpc = "open"
  /\ writer \/ fpc \in {"save_write", "save_line"}
  /\ rpc' = "fgets"
  /\ touched' = 0
  /\ op' = "r_open"
  /\ UNCHANGED << todos, types, selvars, todo_mutex, rline, pipe, writer, written, fgvars >>

\* fgets returned a line
ReaderFgets ==
  /\ rpc = "fgets"
  /\ pipe # <<>>
  /\ rline' = Head(pipe)
  /\ pipe' = Tail(pipe)
  /\ rpc' = "lock"
  /\ touched' = 0
  /\ op' = "r_fgets"
  /\ UNCHANGED << todos, types, selvars, todo_mutex, writer, written, fgvars >>

\* fgets returned NULL: every writer has closed; fclose and open again
ReaderEOF ==
  /\ rpc = "fgets"
  /\ pipe = <<>>
  /\ ~writer
  /\ fpc # "save_line"
  /\ rpc' = "open"
  /\ touched' = 0
  /\ op' = "r_eof"
  /\ UNCHANGED << todos, types, selvars, todo_mutex, rline, pipe, writer, written, fgvars >>

\* pthread_mutex_lock( &todo_mutex )
ReaderLock ==
  /\ rpc = "lock"
  /\ CanLock(todo_mutex)
  /\ todo_mutex' = "bg"
  /\ rpc' = "locked"
  /\ touched' = 0
  /\ op' = "r_lock"
  /\ UNCHANGED << todos, types, selvars, rline, pipe, writer, written, fgvars >>

\* The critical section: the capacity check, the decode and todo_count++.
ReaderAppend ==
  /\ rpc = "locked"
  /\ IF StoreFull(todo_count)
     THEN /\ rpc' = "unlock_full"
          /\ touched' = 0
          /\ op' = "ingest_full"
          /\ UNCHANGED << todos, types >>
     ELSE LET t == PipeDecode(rline, Today)
          IN /\ todos' = AppendTodo(todos, t)
             /\ types' = IF PipeRegisters(rline) THEN add_type(types, t.type) ELSE types
             /\ rpc' = "unlock"
             /\ touched' = Len(todos')
             /\ op' = "ingest"
  /\ UNCHANGED << selvars, todo_mutex, rline, pipe, writer, written, fgvars >>

\* pthread_mutex_unlock( &todo_mutex )
ReaderUnlock ==
  /\ rpc \in {"unlock", "unlock_full"}
  /\ todo_mutex' = "free"
  /\ rpc' = IF rpc = "unlock" THEN "scroll" ELSE "fgets"
  /\ touched' = 0
  /\ op' = "r_unlock"
  /\ UNCHANGED << todos, types, selvars, rline, pipe, writer, written, fgvars >>

\* if ( auto_scroll_enabled ) selected_index = count_visible_.. - 1; draw_ui()
ReaderScroll ==
  /\ rpc = "scroll"
  /\ \E cat \in CurTypes :
       selected_index' = IF auto_scroll_enabled
                         THEN count_visible_items_for_type(todos, cat) - 1
                         ELSE selected_index
  /\ rpc' = "fgets"
  /\ touched' = 0
  /\ op' = "r_scroll"
  /\ UNCHANGED << todos, types, selected_type, auto_scroll_enabled, todo_mutex, rline,
                  pipe, writer, written, fgvars >>

(***************************************************************************)
(* External writers of the FIFO                                            *)
(***************************************************************************)
wfix == << todos, types, selvars, todo_mutex, rpc, rline, fgvars >>

\* Some thread has the FIFO open for reading.
HasReader == rpc # "open" \/ fpc = "load_loop"

WriterOpen ==
  /\ streaming_mode
  /\ ~writer
  /\ nops + Len(written) < MaxEvents
  /\ writer' = TRUE
  /\ touched' = 0
  /\ op' = "w_open"
  /\ UNCHANGED << pipe, written, wfix >>

WriterWrite ==
  /\ writer
  /\ HasReader
  /\ nops + Len(written) < MaxEvents
  /\ Len(pipe) < MaxPipe
  /\ \E line \in PipeInputs :
       /\ pipe' = Append(pipe, line)
       /\ written' = Append(written, line)
  /\ touched' = 0
  /\ op' = "w_write"
  /\ UNCHANGED << writer, wfix >>

WriterClose ==
  /\ writer
  /\ HasReader
  /\ writer' = FALSE
  /\ touched' = 0
  /\ op' = "w_close"
  /\ UNCHANGED << pipe, written, wfix >>

(***************************************************************************)
(* Specification.  main() chooses the mode once, from the type of the      *)
(* backing path: batch mode (InitBatch) or streaming mode (InitStream).    *)
(***************************************************************************)
Reader ==
  \/ ReaderOpen
  \/ ReaderFgets
  \/ ReaderEOF
  \/ ReaderLock
  \/ ReaderAppend
  \/ ReaderUnlock
  \/ ReaderScroll

Writers ==
  \/ WriterOpen
  \/ WriterWrite
  \/ WriterClose

Init == InitBatch \/ InitStream

Next ==
  \/ ToggleCompleted
  \/ SetPriority
  \/ ChangeCategory
  \/ AddNewTodo
  \/ SortByDate
  \/ SortByPriority
  \/ GroupByCompletion
  \/ Archive
  \/ Reload
  \/ KeyDown
  \/ KeyUp
  \/ SwitchType
  \/ JumpToType
  \/ ToggleAutoScroll
  \/ FgSaveLock
  \/ FgSaveWrite
  \/ FgLoadOpen
  \/ FgLoadLine
  \/ FgLoadEOF
  \/ Reader
  \/ Writers

Spec == Init /\ [][Next]_vars

(***************************************************************************)
(* SpecCap: the program at the capacity of the store.  Batch mode starts   *)
(* on a file of MAX_TODOS - 1, MAX_TODOS or MAX_TODOS + 1 lines, the first *)
(* of them a completed record, or on a file of MAX_TODOS lines of           *)
(* MAX_TODOS different categories; streaming mode is entered after that    *)
(* many lines have been ingested.                                          *)
(***************************************************************************)
CapLine == Sp(Sp(D1, AtW), <<"a">>)
CapDone == Sp(Sp(Sp(<<"x">>, D2), D1), Sp(AtW, <<"a">>))
CapFile(n) == [i \in 1..n |-> IF i = 1 THEN CapDone ELSE CapLine]
CapStore(n) == [i \in 1..n |-> PipeDecode(<<"b">>, Today)]

\* A file of MAX_TODOS lines, each of a category of its own: the line
\* number in four digits.
CapTypesFile ==
  [i \in 1..MAX_TODOS |->
     Sp(D1, << "@", Printable[17 + (i \div 1000)], Printable[17 + ((i \div 100) % 10)],
                    Printable[17 + ((i \div 10) % 10)], Printable[17 + (i % 10)] >>)]

InitCapBatch ==
  \E f \in {CapFile(n) : n \in {MAX_TODOS - 1, MAX_TODOS, MAX_TODOS + 1}}
             \cup {CapTypesFile} :
    \E st \in {load_todos(f, <<>>)} :
       /\ todos = st.todos
       /\ types = st.types
       /\ file = f
       /\ streaming_mode = FALSE
       /\ rpc = "off"
       /\ InitCommon

InitCapStream ==
  \E n \in {MAX_TODOS - 1, MAX_TODOS} :
    /\ todos = CapStore(n)
    /\ types = <<ALL>>
    /\ file = <<>>
    /\ streaming_mode = TRUE
    /\ rpc = "open"
    /\ InitCommon

InitCap == InitCapBatch \/ InitCapStream

NextCap ==
  \/ AddNewTodo
  \/ Archive
  \/ Reader
  \/ Writers

SpecCap == InitCap /\ [][NextCap]_vars

(***************************************************************************)
(* SpecCodec: batch mode started on files that put the line decoder to     *)
(* the test, one file per combination of priority letter, date, category   *)
(* and text, holding the line in both token orders, and on a file whose    *)
(* line has a "@" without a token.                                         *)
(***************************************************************************)
\* The priority letters, dates, categories (the longest of MAX_TYPE - 1
\* characters) and texts of the lines.
CodecArgs ==
  [ P : { "A", "z" },
    D : { D1, D2 },
    C : { W, <<"w", "o", "r", "k">>, [i \in 1..(MAX_TYPE - 1) |-> "c"] },
    T : { <<"a">>, <<"b", "u", "y", " ", "m", "i", "l", "k">>,
          <<"(", "B", ")", " ", "x">>, <<"@", "v", " ", "y">>, <<>> } ]

\* "(P) D @C T" and "D (P) @C T"
PairFile(a) ==
  << Sp(Sp(Sp(<<"(", a.P, ")">>, a.D), <<"@">> \o a.C), a.T),
     Sp(Sp(Sp(a.D, <<"(", a.P, ")">>), <<"@">> \o a.C), a.T) >>

\* A file whose only line ends in a bare "@".
BareAtFile == << Sp(D1, <<"@">>) >>

InitCodec ==
  \E f \in {PairFile(a) : a \in CodecArgs} \cup {BareAtFile}, g \in StackGarbage :
    \E st \in {load_todos(f, g)} :
       /\ todos = st.todos
       /\ types = st.types
       /\ file = f
       /\ streaming_mode = FALSE
       /\ rpc = "off"
       /\ InitCommon

NextCodec ==
  \/ Reload
  \/ ToggleCompleted
  \/ SetPriority
  \/ KeyDown

SpecCodec == InitCodec /\ [][NextCodec]_vars

(***************************************************************************)
(* SpecRace: streaming mode with the key handlers that work on the store   *)
(* in several passes taken pass by pass, so that the reader thread, which  *)
(* they do not lock out, runs in between.  The sorts and the grouping      *)
(* first copy the filtered records into a local array and order it, then   *)
(* write the array back over the filtered positions; the jump to a         *)
(* category first looks the token up, then registers it.                   *)
(***************************************************************************)
\* What an element of `Todo sorted[ MAX_TODOS ]` past count may hold: it was
\* never written by this call.
RaceGarbage ==
  { Todo(FALSE, <<>>, <<"?">>, <<>>, <<"?">>, <<"?">>), PipeDecode(<<"b">>, Today) }

\* case 'd' / 'D' / 'p' / 'P' / 'g': the collecting loops and qsort
RaceCollect ==
  /\ FgReady
  /\ streaming_mode
  /\ nops' = nops + 1
  /\ \E cat \in CurTypes, key \in {"d", "D", "p", "P", "g"} :
       \E sub \in {Visible(todos, cat)} :
       \E sorted \in (IF key = "g"
                      THEN { SelectSeq(sub, LAMBDA t : ~t.completed)
                               \o SelectSeq(sub, LAMBDA t : t.completed) }
                      ELSE QSortResults(sub, key \in {"d", "D"}, key \in {"D", "P"})) :
          loc' = [cat |-> cat, sorted |-> sorted, n |-> todo_count]
  /\ fpc' = "reinsert"
  /\ touched' = 0
  /\ op' = "race_collect"
  /\ pend' = None
  /\ rt' = None
  /\ UNCHANGED << todos, types, selvars, streaming_mode, file, archive, todo_mutex,
                  fg_mutated, nfail, rpc, rline, pipe, writer, written, lbuf >>

\* The "reinsert" loop, then selected_index = 0.  The loop runs to the
\* todo_count it reads: the one of the collecting loops if the value was
\* kept in a register, or the one the reader thread has incremented since.
RaceReinsert ==
  /\ fpc = "reinsert"
  /\ \E bound \in {loc.n, todo_count}, junk \in RaceGarbage :
       todos' = [i \in 1..Len(todos) |->
                   IF i <= bound /\ Matches(todos[i], loc.cat)
                   THEN LET j == Cardinality({k \in 1..i : Matches(todos[k], loc.cat)})
                        IN IF j <= Len(loc.sorted) THEN loc.sorted[j] ELSE junk
                   ELSE todos[i]]
  /\ selected_index' = 0
  /\ fpc' = "idle"
  /\ loc' = None
  /\ touched' = 0
  /\ op' = "race_reinsert"
  /\ fg_mutated' = (fg_mutated \/ todos' # todos)
  /\ UNCHANGED << types, selected_type, auto_scroll_enabled, streaming_mode, file,
                  archive, todo_mutex, pend, rt, nops, nfail, rpc, rline, pipe, writer,
                  written, lbuf >>

\* case '@': the prompt and the lookup of the token in the registry
RaceJump ==
  /\ FgReady
  /\ streaming_mode
  /\ nops' = nops + 1
  /\ \E input \in TypeInputs :
       LET I == {i \in 1..type_count : types[i] = input}
       IN IF input = <<>>
          THEN UNCHANGED << selected_type, selected_index, fpc, loc >>
          ELSE IF I # {}
          THEN /\ selected_type' = MinOf(I) - 1
               /\ selected_index' = 0
               /\ UNCHANGED << fpc, loc >>
          ELSE /\ fpc' = "jump_add"
               /\ loc' = [input |-> input]
               /\ UNCHANGED << selected_type, selected_index >>
  /\ touched' = 0
  /\ op' = "nav"
  /\ pend' = None
  /\ rt' = None
  /\ UNCHANGED << todos, types, auto_scroll_enabled, streaming_mode, file, archive,
                  todo_mutex, fg_mutated, nfail, rpc, rline, pipe, writer, written, lbuf >>

\* if ( !found && type_count < MAX_TODOS ) { types[ type_count ] = ..;
\* selected_type = type_count++; }  selected_index = 0
RaceJumpAdd ==
  /\ fpc = "jump_add"
  /\ IF type_count < MAX_TODOS
     THEN selected_type' = type_count /\ types' = Append(types, loc.input)
     ELSE UNCHANGED << types, selected_type >>
  /\ selected_index' = 0
  /\ fpc' = "idle"
  /\ loc' = None
  /\ touched' = 0
  /\ op' = "race_jump_add"
  /\ UNCHANGED << todos, auto_scroll_enabled, streaming_mode, file, archive, todo_mutex,
                  fg_mutated, pend, rt, nops, nfail, rpc, rline, pipe, writer, written,
                  lbuf >>

NextRace ==
  \/ RaceCollect
  \/ RaceReinsert
  \/ RaceJump
  \/ RaceJumpAdd
  \/ Reader
  \/ Writers

SpecRace == InitStream /\ [][NextRace]_vars

(***************************************************************************)
(* SpecIndex: batch mode started on a file of two records of one category, *)
(* with the keys that move the selection, change the filter and edit the   *)
(* addressed record, and enough of them to take the selection to the last  *)
(* record of a category and that record out of the category.               *)
(***************************************************************************)
IndexFile == << Sp(Sp(D1, AtW), <<"a">>), Sp(Sp(D2, AtW), <<"b">>) >>

\* nops counts against MaxKeys: it starts where MaxIndexKeys keys are left.
InitIndex ==
  \E st \in {load_todos(IndexFile, <<>>)} :
     /\ todos = st.todos
     /\ types = st.types
     /\ file = IndexFile
     /\ streaming_mode = FALSE
     /\ rpc = "off"
     /\ selected_type = 0
     /\ selected_index = 0
     /\ auto_scroll_enabled = TRUE
     /\ archive = <<>>
     /\ todo_mutex = "free"
     /\ fpc = "idle"
     /\ lbuf = <<>>
     /\ loc = None
     /\ rline = <<>>
     /\ pipe = <<>>
     /\ writer = FALSE
     /\ op = "start"
     /\ touched = 0
     /\ written = <<>>
     /\ fg_mutated = FALSE
     /\ pend = None
     /\ rt = None
     /\ nops = MaxKeys - MaxIndexKeys
     /\ nfail = 0

NextIndex ==
  \/ SwitchType
  \/ KeyDown
  \/ ChangeCategory
  \/ AddNewTodo
  \/ ToggleCompleted
  \/ SetPriority
  \/ JumpToType
  \/ Reload

SpecIndex == InitIndex /\ [][NextIndex]_vars

(***************************************************************************)
(* SpecLive: streaming mode, entered after some lines have been ingested,  *)
(* with the whole-store write that prompt_type starts taken line by line:  *)
(* the foreground opens the FIFO for writing and prints one line per       *)
(* record into it while it holds todo_mutex, and a line goes into the FIFO *)
(* only while the FIFO has room.  The threads are scheduled fairly: a step *)
(* of the reader thread or of the write that stays possible is taken.      *)
(***************************************************************************)
InitLive ==
  \E n \in {MaxPipe - 1, MaxPipe + 2} :
    /\ todos = CapStore(n)
    /\ types = <<ALL>>
    /\ file = <<>>
    /\ streaming_mode = TRUE
    /\ rpc = "open"
    /\ InitCommon

livefix == << todos, types, selvars, streaming_mode, file, archive, rpc, rline, writer,
              written, lbuf, fg_mutated, pend, rt, nops >>

\* FILE *f = fopen( todo_filename, "w" ), with the lock held; on failure
\* perror, unlock and return.
LiveSaveOpen ==
  /\ fpc = "save_write"
  /\ \E wok \in BOOLEAN :
       IF wok
       THEN /\ rpc # "open"
            /\ fpc' = "save_line"
            /\ loc' = [next |-> 1]
            /\ UNCHANGED << todo_mutex, nfail >>
       ELSE /\ nfail < MaxIOFail
            /\ nfail' = nfail + 1
            /\ fpc' = "idle"
            /\ todo_mutex' = "free"
            /\ loc' = loc
  /\ touched' = 0
  /\ op' = "save_open"
  /\ UNCHANGED << pipe, livefix >>

\* One iteration of the fprintf loop: the line of todos[ i ] goes into the
\* FIFO, which blocks the writer while it is full.
LiveSaveLine ==
  /\ fpc = "save_line"
  /\ loc.next <= todo_count
  /\ Len(pipe) < MaxPipe
  /\ pipe' = Append(pipe, Encode(todos[loc.next]))
  /\ loc' = [next |-> loc.next + 1]
  /\ touched' = 0
  /\ op' = "save_line"
  /\ UNCHANGED << fpc, todo_mutex, nfail, livefix >>

\* fclose( f ); pthread_mutex_unlock( &todo_mutex )
LiveSaveClose ==
  /\ fpc = "save_line"
  /\ loc.next > todo_count
  /\ fpc' = "idle"
  /\ todo_mutex' = "free"
  /\ loc' = None
  /\ touched' = 0
  /\ op' = "save_write"
  /\ UNCHANGED << pipe, nfail, livefix >>

LiveSave ==
  \/ FgSaveLock
  \/ LiveSaveOpen
  \/ LiveSaveLine
  \/ LiveSaveClose

NextLive ==
  \/ ChangeCategory
  \/ LiveSave
  \/ Reader
  \/ Writers

SpecLive ==
  InitLive /\ [][NextLive]_vars /\ WF_vars(Reader) /\ WF_vars(LiveSave)

(***************************************************************************)
(* Properties                                                              *)
(***************************************************************************)
\* The lines the reader thread is through with: what the writers wrote, less
\* what the FIFO still holds and the line the thread holds ahead of its
\* critical section.
Processed ==
  Len(written) - Len(pipe) - (IF rpc \in {"lock", "locked"} THEN 1 ELSE 0)

\* C1: in streaming mode, while the foreground has only read the store, the
\* store is exactly the records of the lines ingested so far, one record per
\* line and in the order the lines were written: no line is lost, none is
\* duplicated, and each record was put behind all earlier ones.
C1_IngestInOrder ==
  (streaming_mode /\ ~fg_mutated) =>
     todos = [i \in 1..Processed |-> PipeDecode(written[i], Today)]

\* Two different lines are ingested while the user has pressed a key.
C1_Witness ==
  /\ streaming_mode /\ ~fg_mutated
  /\ nops > 0
  /\ Processed = Len(written)
  /\ Len(todos) >= 2
  /\ todos[1] # todos[2]

\* Who holds todo_mutex, and what a step may do with the store.
C2_Holder ==
  /\ (todo_mutex = "bg") <=> (rpc \in {"locked", "unlock", "unlock_full"})
  /\ (todo_mutex = "fg") <=> (fpc = "save_write")

C2_Step ==
  /\ (rpc' # rpc /\ (todos' # todos \/ types' # types))
        => (todo_mutex = "bg" /\ todo_mutex' = "bg")
  /\ (fpc = "save_write" /\ fpc' # fpc) => todo_mutex = "fg"

\* C2: one lock guards the store.  The reader thread is between its lock
\* and unlock exactly when it holds the lock, the foreground is inside the
\* whole-store write exactly when it holds the lock (so never both), the
\* reader thread changes the records, their count and the category registry
\* only while holding the lock, and the whole-store write is done only
\* while holding it.
C2_SingleLock == []C2_Holder /\ [][C2_Step]_vars

\* The foreground holds the lock for its write while the reader thread
\* waits for it with a line in hand.
C2_Witness ==
  /\ todo_mutex = "fg"
  /\ fpc = "save_write"
  /\ rpc = "lock"

\* C3 (as the specification states it): in streaming mode add, archive and
\* toggle-completion leave the record sequence unchanged.
C3_Suppressed ==
  [][ (streaming_mode /\ op' \in {"add", "add_append", "add_suppressed", "add_refused",
                                  "add_empty", "archive", "archive_failed",
                                  "toggle", "toggle_noop"})
        => todos' = todos ]_vars

\* C4 (as the specification states it): completing a record with an active
\* priority and un-completing it again gives back the priority and the
\* text it had, with the completion flag and date cleared.
C4_Reversible ==
  rt # None =>
     /\ rt.after.priority = rt.before.priority
     /\ rt.after.text = rt.before.text
     /\ ~rt.after.completed
     /\ rt.after.completion_date = <<>>

\* C5 (as the specification states it): the record add, toggle-completion or
\* set-priority has just produced is what decoding its encoded line gives.
C5_RoundTrip ==
  (op \in {"add", "add_append", "toggle", "priority"} /\ touched > 0) =>
     DecodeLine(Encode(todos[touched])) = todos[touched]

\* The record invariant: a completed record has a completion date and no
\* active priority, an incomplete one has no completion date.
RecordOK(t) ==
  IF t.completed THEN t.completion_date # <<>> /\ t.priority = <<>>
  ELSE t.completion_date = <<>>

AllOK(store) == \A i \in 1..Len(store) : RecordOK(store[i])

C7_Bounded == todo_count <= MAX_TODOS

C7_Step ==
  /\ op' \in {"add_refused", "ingest_full"} => (todo_count = MAX_TODOS /\ todos' = todos)
  /\ op' \in {"add", "add_append", "ingest"}
        => (todo_count < MAX_TODOS /\ Len(todos') = todo_count + 1)

SortOps == {"sort_date_asc", "sort_date_desc", "sort_pri_asc", "sort_pri_desc", "group"}

Count(seq, x) == Cardinality({i \in 1..Len(seq) : seq[i] = x})

FilterInvariant(old, new, cat) ==
  /\ Len(new) = Len(old)
  /\ \A i \in 1..Len(old) : Matches(new[i], cat) <=> Matches(old[i], cat)
  /\ \A i \in 1..Len(old) : ~Matches(old[i], cat) => new[i] = old[i]
  /\ \A t \in Range(old) \cup Range(new) :
        Count(Visible(new, cat), t) = Count(Visible(old, cat), t)

\* C8: under every filter, the sorts and the grouping leave the positions of
\* the matching records the same set, leave every other record where it is
\* and as it is, and keep the matching records the same multiset.
C8_FilterInvariance ==
  [][ op' \in SortOps => \E cat \in CurTypes : FilterInvariant(todos, todos', cat) ]_vars

\* A sort under the filter "w" has changed the order of the store, which
\* also holds a record of another category.
C8_Witness ==
  /\ op \in SortOps \ {"group"}
  /\ CurTypes = {W}
  /\ \E i \in 1..Len(todos) : ~Matches(todos[i], W)
  /\ ~streaming_mode
  /\ todos # load_todos(file, <<>>).todos

\* The completed-record format.
C9_Line(t) ==
  <<"x", " ">> \o t.completion_date \o <<" ">> \o t.date \o <<" ", "@">>
    \o t.type \o <<" ">> \o t.text

\* C9: an archive whose log could be opened removes exactly the completed
\* records, whatever the filter, keeps the others in their order, and
\* appends one line "x <completion date> <date> @<type> <text>" per removed
\* record, in storage order, behind the lines the log already had; no step
\* takes a line out of the log.
C9_Archive ==
  [][ /\ op' = "archive" =>
           LET done == SelectSeq(todos, LAMBDA t : t.completed)
           IN /\ todos' = SelectSeq(todos, LAMBDA t : ~t.completed)
              /\ archive' = archive \o [i \in 1..Len(done) |-> C9_Line(done[i])]
      /\ Len(archive') >= Len(archive)
      /\ SubSeq(archive', 1, Len(archive)) = archive ]_vars

\* Two records were archived while the filter showed another category.
C9_Witness ==
  /\ op = "archive"
  /\ Len(archive) >= 2
  /\ todos # <<>>
  /\ CurTypes = {V}
  /\ \A i \in 1..Len(archive) : StrStr(archive[i], AtW) > 0

\* C10: the grouping is a stable partition of the filtered records: the
\* incomplete ones in their order, then the completed ones in their order.
C10_StablePartition ==
  [][ op' = "group" =>
        \E cat \in CurTypes :
           Visible(todos', cat) =
              SelectSeq(Visible(todos, cat), LAMBDA t : ~t.completed)
                \o SelectSeq(Visible(todos, cat), LAMBDA t : t.completed) ]_vars

\* The grouping under the filter "w" has moved records: two incomplete
\* ones are now in front of two completed ones.
C10_Witness ==
  /\ op = "group"
  /\ CurTypes = {W}
  /\ ~streaming_mode
  /\ todos # load_todos(file, <<>>).todos
  /\ Len(SelectSeq(Visible(todos, W), LAMBDA t : t.completed)) >= 2
  /\ Len(SelectSeq(Visible(todos, W), LAMBDA t : ~t.completed)) >= 2

\* C11: for every priority letter P, date D, category C and text T, the
\* lines "(P) D @C T" and "D (P) @C T" decode to the same record: priority
\* P, date D, category C, text T, not completed.
C11_BothOrders ==
  \A a \in CodecArgs :
     (op \in {"start", "reload"} /\ file = PairFile(a)) =>
        todos = << Todo(FALSE, <<>>, a.D, <<"(", a.P, ")">>, a.C, a.T),
                   Todo(FALSE, <<>>, a.D, <<"(", a.P, ")">>, a.C, a.T) >>

\* The file with both orders of a line with a category of MAX_TYPE - 1
\* characters and a text of two words has been loaded again, and the
\* priority of the second line was found behind the date.
C11_Witness ==
  /\ op = "reload"
  /\ \E a \in CodecArgs : file = PairFile(a)
  /\ Len(todos) = 2
  /\ todos[2].priority = <<"(", "z", ")">>
  /\ Len(todos[2].type) = MAX_TYPE - 1
  /\ todos[2].text = <<"b", "u", "y", " ", "m", "i", "l", "k">>

\* C12 (as the specification states it): the pipe line "a @w", words
\* followed by one category token, is ingested as a record of category
\* "w" with today's date, not completed, without priority, whose text is
\* the words alone: "a".
C12_PipeLine ==
  (op = "ingest" /\ rline = Sp(<<"a">>, AtW)) =>
     todos[touched] = Todo(FALSE, <<>>, Today, <<>>, W, <<"a">>)

\* C13 (as the specification states it): in every reachable state the
\* registry holds no token twice and its first entry is "all".
C13_Registry ==
  /\ type_count >= 1
  /\ types[1] = ALL
  /\ \A i, j \in 1..type_count : i # j => types[i] # types[j]

\* C14 (as the specification states it): every record of the store has a
\* non-empty category, and the batch decode of a line with a bare "@" at
\* the category position gives the category "all".
C14_Category ==
  /\ \A i \in 1..todo_count : todos[i].type # <<>>
  /\ (op \in {"start", "reload"} /\ file = BareAtFile) => todos[1].type = ALL

\* C15 (as the specification states it): the category registry never holds
\* more entries than the MAX_TODOS slots of types[].
C15_RegistryBounded == type_count <= MAX_TODOS

\* C16 (as the specification states it): an add under the selected filter
\* with an in-range visible index puts the new record (category of the
\* filter, today's date, not completed, no priority) at the storage
\* position right behind the addressed record matching the filter and keeps
\* all other records in their order; when no record matches the filter the
\* new record is appended.
C16_InsertAfter ==
  [][ op' \in {"add", "add_append"} =>
        \E cat \in CurTypes, text \in TextInputs :
           LET vis == VisiblePos(todos, cat)
               new == Todo(FALSE, <<>>, Today, <<>>, cat, text)
           IN /\ (selected_index >= 0 /\ selected_index < Len(vis)) =>
                    todos' = SubSeq(todos, 1, vis[selected_index + 1]) \o <<new>>
                               \o SubSeq(todos, vis[selected_index + 1] + 1, Len(todos))
              /\ vis = <<>> => todos' = Append(todos, new) ]_vars

\* C17 (as the specification states it): a sort or grouping that a
\* background append has run into leaves the store with exactly the records
\* it held, the appended one included: writing the ordered records back
\* changes no record count.
C17_NoLoss ==
  [][ op' = "race_reinsert" =>
        \A t \in Range(todos) \cup Range(todos') : Count(todos', t) = Count(todos, t) ]_vars

\* C18 (as the specification states it): the sorts are stable.  The records
\* matching the filter are afterwards a rearrangement pi of what they were
\* before, in which no record compares greater than a later one and records
\* that compare equal are in the order they had before.
C18_Stable ==
  [][ op' \in SortOps \ {"group"} =>
        \E cat \in CurTypes :
           LET old == Visible(todos, cat)
               new == Visible(todos', cat)
               by_date == op' \in {"sort_date_asc", "sort_date_desc"}
               descending == op' \in {"sort_date_desc", "sort_pri_desc"}
           IN /\ Len(new) = Len(old)
              /\ \E pi \in [1..Len(old) -> 1..Len(old)] :
                   /\ \A i \in 1..Len(old) : new[i] = old[pi[i]]
                   /\ \A i, j \in 1..Len(old) :
                        i < j => /\ pi[i] # pi[j]
                                 /\ Compare(new[i], new[j], by_date, descending) <= 0
                                 /\ Compare(new[i], new[j], by_date, descending) = 0
                                       => pi[i] < pi[j] ]_vars

\* C19 (as the specification states it): after a sort by priority, in
\* either direction, no record without priority stands in front of a
\* record with a priority letter among the records matching the filter, and
\* the records with letters are ordered by the letter in the direction asked
\* for.
C19_UnsetLast ==
  [][ op' \in {"sort_pri_asc", "sort_pri_desc"} =>
        \E cat \in CurTypes :
           LET new == Visible(todos', cat)
           IN \A i, j \in 1..Len(new) :
                 i < j =>
                   /\ new[i].priority = <<>> => new[j].priority = <<>>
                   /\ (new[i].priority # <<>> /\ new[j].priority # <<>>) =>
                        IF op' = "sort_pri_asc"
                        THEN Ord(new[i].priority[2]) <= Ord(new[j].priority[2])
                        ELSE Ord(new[i].priority[2]) >= Ord(new[j].priority[2]) ]_vars

\* C20: in batch mode, when the backing file could be opened for writing,
\* the file holds after every add, toggle-completion, set-priority and
\* change-category that was carried out, and after every archive that
\* removed a record, the encoded lines of the records of the store, one per
\* record and in storage order; the sorts, the grouping and an archive that
\* removed nothing leave the file as it is.
C20_Durable ==
  [][ ~streaming_mode =>
        /\ ( /\ \/ op' \in {"add", "add_append", "toggle", "priority", "type"}
                 \/ (op' = "archive" /\ Len(todos') < Len(todos))
              /\ nfail' = nfail )
             => file' = [i \in 1..Len(todos') |-> Encode(todos'[i])]
        /\ ( \/ op' \in SortOps
              \/ (op' = "archive" /\ Len(todos') = Len(todos)) )
             => file' = file ]_vars

\* An archive has removed a completed record and the file was written
\* anew: it holds the lines of the records left, which differ from the
\* file the program was started on, and a sort has then changed the order
\* of the store without writing the file.
C20_Witness ==
  /\ ~streaming_mode
  /\ op \in SortOps
  /\ nfail = 0
  /\ archive # <<>>
  /\ todo_count >= 2
  /\ Len(file) = todo_count
  /\ file # [i \in 1..todo_count |-> Encode(todos[i])]
  /\ \A i \in 1..todo_count : \E j \in 1..todo_count : file[i] = Encode(todos[j])

\* The line buffer as the lines before line i have left it: each byte is
\* that of the latest earlier line long enough to reach it (the line, then
\* the two bytes fgets and the chopping of the newline set to NUL), and
\* where no line reached, what the buffer held at the start.
C21_Buffer(lines, garbage, i) ==
  [q \in 1..(MaxOf({Len(garbage)} \cup {Len(lines[j]) + 2 : j \in 1..Len(lines)})) |->
     LET J == {j \in 1..(i - 1) : Len(lines[j]) + 2 >= q}
     IN IF J = {} THEN At(garbage, q) ELSE At(lines[MaxOf(J)], q)]

C21_Decoded(lines, garbage) ==
  [i \in 1..Min2(Len(lines), MAX_TODOS) |->
     DecodeLine(ChopNewline(FGets(C21_Buffer(lines, garbage, i), Append(lines[i], NL))))]

\* "all", then the categories of the records in the order in which they
\* first appear.
C21_Registry(store, reg) ==
  /\ Len(reg) >= 1
  /\ reg[1] = ALL
  /\ Range(reg) = {ALL} \cup {store[i].type : i \in 1..Len(store)}
  /\ \A k, l \in 2..Len(reg) :
        k < l => MinOf({i \in 1..Len(store) : store[i].type = reg[k]})
                   < MinOf({i \in 1..Len(store) : store[i].type = reg[l]})

\* C21: after a reload in batch mode the store holds the decode of the
\* lines of the backing file, one record per line and in file order (at
\* most MAX_TODOS of them), whatever it held before, and the registry is
\* "all" followed by the categories of these records in the order of their
\* first appearance.
C21_Reload ==
  (op = "reload" /\ ~streaming_mode) =>
     /\ \E g \in StackGarbage : todos = C21_Decoded(file, g)
     /\ C21_Registry(todos, types)

\* The reload has brought back a completed record that an archive had
\* removed from the store: the write of the file after the archive had
\* failed.
C21_Witness ==
  /\ op = "reload"
  /\ ~streaming_mode
  /\ archive # <<>>
  /\ nfail = 1
  /\ Len(types) >= 3
  /\ \E i \in 1..todo_count : todos[i].completed

\* C22: set-priority on a completed record is refused and leaves the store
\* and the backing file as they are; on an incomplete record it clears the
\* priority or sets it to "(L)", L the upper-case form of a letter that can
\* be pressed (a key that is neither leaves the priority as it is), and
\* changes no other field and no other record.
C22_SetPriority ==
  [][ /\ op' = "priority_refused" => (todos' = todos /\ file' = file)
      /\ op' = "priority" =>
           /\ touched' \in 1..Len(todos)
           /\ ~todos[touched'].completed
           /\ \E new \in {todos'[touched'].priority} :
                /\ todos' = [todos EXCEPT ![touched'].priority = new]
                /\ \/ new = <<>>
                   \/ new = todos[touched'].priority
                   \/ /\ Len(new) = 3
                      /\ new[1] = "("
                      /\ new[3] = ")"
                      /\ Ord(new[2]) \in 65..90
                      /\ \E ch \in KeyInputs :
                           IsAlpha(ch) /\ Ord(new[2]) \in {Ord(ch), Ord(ch) - 32} ]_vars

\* Set-priority was refused on a record that a toggle has completed today.
C22_Witness ==
  /\ op = "priority_refused"
  /\ ~streaming_mode
  /\ \E cat \in CurTypes :
       /\ selected_index < Len(VisiblePos(todos, cat))
       /\ todos[VisiblePos(todos, cat)[selected_index + 1]].completion_date = Today

\* C23 (as the specification states it): toggle-completion, set-priority,
\* change-category, and add while the filter shows a record, leave the
\* store and the backing file as they are when the visible index is not
\* below the number of records the filter shows.
C23_OutOfRange ==
  [][ \A cat \in CurTypes :
        ( /\ selected_index >= Len(VisiblePos(todos, cat))
          /\ \/ op' \in {"toggle", "toggle_noop", "priority", "priority_refused",
                          "priority_noop", "type", "type_noop"}
             \/ /\ op' \in {"add", "add_append", "add_empty", "add_refused",
                             "add_suppressed"}
                /\ Len(VisiblePos(todos, cat)) >= 1 )
        => (todos' = todos /\ file' = file) ]_vars

\* C24: an archive whose log cannot be opened removes no record and writes
\* neither the log nor the backing file; a whole-store write whose file
\* cannot be opened writes nothing and changes no record, so that the edit
\* of the handler that called it stands; in both cases the failure is
\* counted once (no retry), the foreground does not keep the lock and is
\* back at reading keys.
C24_OpenFailure ==
  [][ /\ op' = "archive_failed" =>
           (todos' = todos /\ archive' = archive /\ file' = file)
      /\ nfail' # nfail =>
           /\ nfail' = nfail + 1
           /\ file' = file
           /\ pipe' = pipe
           /\ fpc' = "idle"
           /\ todo_mutex' # "fg"
           /\ op' = "save_write" => todos' = todos
           /\ op' = "toggle" =>
                todos'[touched'].completed # todos[touched'].completed
           /\ op' \in {"add", "add_append"} => Len(todos') = Len(todos) + 1
           /\ op' = "archive" => todos' = SelectSeq(todos, LAMBDA t : ~t.completed) ]_vars

\* After a write that failed the program has handled another key, whose
\* write went through: the file holds the store with the toggled record.
C24_Witness ==
  /\ ~streaming_mode
  /\ nfail = 1
  /\ nops = 2
  /\ op = "toggle"
  /\ file # <<>>
  /\ file = [i \in 1..todo_count |-> Encode(todos[i])]

\* C25 (as the specification states it): the reader thread never stops for
\* good; a line it has read from the pipe is eventually appended to the
\* store (which is below MAX_TODOS here).
C25_Appended == (rpc = "lock") ~> (op = "ingest")

\* C26 (as the specification states it): the two threads never block each
\* other for good: the foreground in its whole-store write, holding the
\* lock and waiting for room in the full pipe, and the reader thread, the
\* only one that takes lines out of the pipe, waiting for the lock.
C26_NoDeadlock ==
  ~ ( /\ fpc = "save_line"
      /\ todo_mutex = "fg"
      /\ loc.next <= todo_count
      /\ Len(pipe) >= MaxPipe
      /\ rpc = "lock" )

\* C27 (as the specification states it): in streaming mode the foreground
\* never enters the whole-store write.
C27_NoStreamSave == streaming_mode => fpc \notin {"save_lock", "save_write"}

\* C28 (as the specification states it): the selected category index
\* addresses an entry of the registry: 0 <= selected_type < type_count.
C28_SelectedType == selected_type >= 0 /\ selected_type < type_count

\* C29 (as the specification states it): the selection addresses a visible
\* record of the selected category when there is one, and is 0 when there is
\* none.
C29_SelectedIndex ==
  selected_type < type_count =>
    LET n == count_visible_items_for_type(todos, types[selected_type + 1])
    IN IF n > 0 THEN selected_index >= 0 /\ selected_index < n
       ELSE selected_index = 0

\* C30 (as the specification states it): the category of every record of the
\* store is an entry of the registry.
C30_Registered == \A i \in 1..todo_count : todos[i].type \in Range(types)

\* C31: a step of toggle_completed, prompt_priority or prompt_type that
\* changes a record changes the addressed one only: the number of records,
\* their order and every field of every other record stay as they are; the
\* toggle keeps the date and the category of the addressed record, and the
\* change of category keeps its completion state, both dates, its priority
\* and its text.
C31_Frame ==
  [][ op' \in {"toggle", "priority", "type"} =>
        /\ touched' \in 1..Len(todos)
        /\ Len(todos') = Len(todos)
        /\ \A i \in 1..Len(todos) : i # touched' => todos'[i] = todos[i]
        /\ op' = "toggle" =>
             /\ todos'[touched'].date = todos[touched'].date
             /\ todos'[touched'].type = todos[touched'].type
        /\ op' = "type" =>
             /\ todos'[touched'].completed = todos[touched'].completed
             /\ todos'[touched'].completion_date = todos[touched'].completion_date
             /\ todos'[touched'].date = todos[touched'].date
             /\ todos'[touched'].priority = todos[touched'].priority
             /\ todos'[touched'].text = todos[touched'].text ]_vars

\* A toggle has completed one of several records, whose date is not
\* today's, and moved its priority into the text.
C31_Witness ==
  /\ op = "toggle"
  /\ todo_count >= 2
  /\ touched \in 1..todo_count
  /\ todos[touched].completed
  /\ todos[touched].completion_date = Today
  /\ todos[touched].date # Today
  /\ todos[touched].priority = <<>>
  /\ StrStr(todos[touched].text, PriPrefix) > 0

====
